---- MODULE Spec2Model ----
(***************************************************************************)
(* CoverageMap (src/lib/coverageMap.js): the object that turns the events  *)
(* fired by instrumented contracts into an istanbul coverage map.          *)
(*                                                                         *)
(* State: the fields of one CoverageMap object.  The per-contract entries  *)
(* `this.coverage[path]` are JavaScript objects that `generate` hands out  *)
(* by reference (Object.assign copies only the top level), so they live in *)
(* a heap of entries and `coverage` maps a path to a heap address.         *)
(*                                                                         *)
(* JavaScript values: a counter is a number; reading a missing key gives   *)
(* `undefined`, and `undefined + 1` is NaN.  Both are encoded as integers  *)
(* no counter can take (Undefined, NaN), so that a counter can be compared *)
(* with a number.  An array `[x, y]` is the sequence <<x, y>>: the         *)
(* JavaScript index a is position a + 1.                                   *)
(*                                                                         *)
(* keccak-256 is modelled as a collision-free tag of its preimage, and the *)
(* payload of an event as the fields SolidityCoder.decodeParams returns.   *)
(***************************************************************************)
EXTENDS Integers, Sequences, FiniteSets, TLC

VARIABLES
    heap,               \* the entry objects ever created, by address 1..Len(heap)
    coverage,           \* this.coverage: path -> address of its entry
    assertCoverage,     \* this.assertCoverage: path -> branch -> {preEvents, postEvents}
    lineTopics,         \* this.lineTopics
    functionTopics,     \* this.functionTopics
    branchTopics,       \* this.branchTopics
    statementTopics,    \* this.statementTopics
    assertPreTopics,    \* this.assertPreTopics
    assertPostTopics,   \* this.assertPostTopics
    sourceTopicsFile,   \* the lines of the file addContract appends to
    info,               \* the `info` argument of the last addContract call
    pc,                 \* "idle"; in generate, "loop" between events and "arm" in one
    kind,               \* the arm of the chain the current event takes
    nEvents,            \* events processed so far by this object
    error,              \* how the last call ended: "none" or "TypeError"
    result              \* what the last successful generate returned

vars == <<heap, coverage, assertCoverage, lineTopics, functionTopics, branchTopics,
          statementTopics, assertPreTopics, assertPostTopics, sourceTopicsFile,
          info, pc, kind, nEvents, error, result>>

topicVars == <<lineTopics, functionTopics, branchTopics, statementTopics,
               assertPreTopics, assertPostTopics, sourceTopicsFile>>

----------------------------------------------------------------------------
(* Bounds *)

MaxAdds == 2            \* addContract calls on one object
MaxEvents == 2          \* events processed by one object
MaxTopics == 2          \* topics carried by one event
MaxKey == 2             \* largest key of an fnMap / branchMap / statementMap
MaxLine == 2            \* largest line number, and longest runnableLines list
MaxAssertEvents == 8    \* events processed by one object in SpecAssert
MaxStream == 3          \* events processed by one object in SpecStream

----------------------------------------------------------------------------
(* JavaScript values *)

Undefined == -1000001
NaN == -1000002

IsNumber(v) == v \notin {Undefined, NaN}

\* v + 1 as `+=` computes it
PlusOne(v) == IF IsNumber(v) THEN v + 1 ELSE NaN

\* o[k] of an object with numeric keys
Get(o, k) == IF k \in DOMAIN o THEN o[k] ELSE Undefined

\* o[k] = v
Put(o, k, v) == [j \in (DOMAIN o) \cup {k} |-> IF j = k THEN v ELSE o[j]]

\* arr[a] of an array
ArrGet(arr, a) == IF a + 1 <= Len(arr) THEN arr[a + 1] ELSE Undefined

\* arr[a] = v: an index past the end lengthens the array, leaving holes
ArrPut(arr, a, v) ==
    LET n == IF a + 1 > Len(arr) THEN a + 1 ELSE Len(arr)
    IN  [j \in 1..n |-> IF j = a + 1 THEN v
                        ELSE IF j <= Len(arr) THEN arr[j] ELSE Undefined]

\* The object with keys K, all mapped to v
Filled(K, v) == [k \in K |-> v]

Range(f) == {f[x] : x \in DOMAIN f}

----------------------------------------------------------------------------
(* Inputs *)

Paths == {"a.sol", "b.sol"}

Names == {"M", "N"}

\* info = getInstrumentedVersion(contract, fileName, true), with each map
\* reduced to its set of keys.  The contract found at each path:
InfoOf(path) ==
    IF path = "a.sol"
    THEN [contractName |-> "M", runnableLines |-> <<1, 2, 4>>, fnMap |-> {1},
          branchMap |-> {1, 2, 3}, statementMap |-> {}]
    ELSE [contractName |-> "N", runnableLines |-> <<2>>, fnMap |-> {1, 2},
          branchMap |-> {1}, statementMap |-> {1, 2, 3}]

\* Every info with lines and keys up to the bounds: lists with repeated lines
\* and maps whose keys are not 1..N included.
LineSeqs == UNION {[1..n -> 1..MaxLine] : n \in 0..MaxLine}

KeySets == SUBSET (1..MaxKey)

WideInfos(path) ==
    [contractName : {InfoOf(path).contractName}, runnableLines : LineSeqs,
     fnMap : KeySets, branchMap : KeySets, statementMap : KeySets]

NoInfo == [contractName |-> "", runnableLines |-> <<>>, fnMap |-> {},
           branchMap |-> {}, statementMap |-> {}]

----------------------------------------------------------------------------
(* Topics *)

keccakhex(x) == <<"keccak256", x>>

lineHash(name) == keccakhex(<<"__Coverage", name, "(string,uint256)">>)
fnHash(name) == keccakhex(<<"__FunctionCoverage", name, "(string,uint256)">>)
branchHash(name) == keccakhex(<<"__BranchCoverage", name, "(string,uint256,uint256)">>)
statementHash(name) == keccakhex(<<"__StatementCoverage", name, "(string,uint256)">>)
assertPreHash(name) == keccakhex(<<"__AssertPreCoverage", name, "(string,uint256)">>)
assertPostHash(name) == keccakhex(<<"__AssertPostCoverage", name, "(string,uint256)">>)

\* topics with the function hash written ahead of the line hash
topics_FunctionFirst(name) == <<fnHash(name), lineHash(name), branchHash(name),
                                statementHash(name), assertPreHash(name), assertPostHash(name)>>

\* The six hashes of one contract, in the order they are written to the file
topics(name) == <<lineHash(name), fnHash(name), branchHash(name),
                  statementHash(name), assertPreHash(name), assertPostHash(name)>>

\* A topic no addContract derives
ForeignHash == keccakhex(<<"Transfer", "", "(address,address,uint256)">>)

----------------------------------------------------------------------------
(* constructor *)

Init ==
    /\ heap = <<>>
    /\ coverage = <<>>
    /\ assertCoverage = <<>>
    /\ lineTopics = <<>>
    /\ functionTopics = <<>>
    /\ branchTopics = <<>>
    /\ statementTopics = <<>>
    /\ assertPreTopics = <<>>
    /\ assertPostTopics = <<>>
    /\ sourceTopicsFile = <<>>
    /\ info = NoInfo
    /\ pc = "idle"
    /\ kind = "none"
    /\ nEvents = 0
    /\ error = "none"
    /\ result = [returned |-> FALSE, map |-> <<>>]

----------------------------------------------------------------------------
(* addContract(info, canonicalContractPath, sourceTopicsFile) *)

\* NewEntry with the f loop bounded by the keys of branchMap
NewEntry_fByBranchMap(i, path) ==
    [l |-> Filled(Range(i.runnableLines), 0),
     path |-> path,
     s |-> Filled(1..Cardinality(i.statementMap), 0),
     b |-> Filled(1..Cardinality(i.branchMap), <<0, 0>>),
     f |-> Filled(1..Cardinality(i.branchMap), 0),
     fnMap |-> i.fnMap,
     statementMap |-> i.statementMap,
     branchMap |-> i.branchMap]

\* The object assigned to this.coverage[canonicalContractPath], as it is once
\* the four loops have filled it
NewEntry(i, path) ==
    [l |-> Filled(Range(i.runnableLines), 0),
     path |-> path,
     s |-> Filled(1..Cardinality(i.statementMap), 0),
     b |-> Filled(1..Cardinality(i.branchMap), <<0, 0>>),
     f |-> Filled(1..Cardinality(i.fnMap), 0),
     fnMap |-> i.fnMap,
     statementMap |-> i.statementMap,
     branchMap |-> i.branchMap]

\* The object assigned to this.assertCoverage[canonicalContractPath]
NewAssertEntry(i) ==
    Filled(1..Cardinality(i.branchMap), [preEvents |-> 0, postEvents |-> 0])

AddContract(i, path) ==
    /\ pc = "idle"
    /\ heap' = Append(heap, NewEntry(i, path))
    /\ coverage' = Put(coverage, path, Len(heap) + 1)
    /\ assertCoverage' = Put(assertCoverage, path, NewAssertEntry(i))
    /\ lineTopics' = Append(lineTopics, lineHash(i.contractName))
    /\ functionTopics' = Append(functionTopics, fnHash(i.contractName))
    /\ branchTopics' = Append(branchTopics, branchHash(i.contractName))
    /\ statementTopics' = Append(statementTopics, statementHash(i.contractName))
    /\ assertPreTopics' = Append(assertPreTopics, assertPreHash(i.contractName))
    /\ assertPostTopics' = Append(assertPostTopics, assertPostHash(i.contractName))
    /\ sourceTopicsFile' = sourceTopicsFile \o topics(i.contractName)
    /\ info' = i
    /\ kind' = "none"
    /\ error' = "none"
    /\ UNCHANGED <<pc, nEvents, result>>

----------------------------------------------------------------------------
(* generate(events, pathPrefix): one event of the loop *)

\* event = JSON.parse(events[idx]): its topics, and its data as decodeParams
\* returns it (the third field is read for a branch event only)
Indices == {1}

Arms == {0, 1, 2}

\* The topics of one event: up to MaxTopics hashes, among the six of the
\* contract that emits it and a foreign one
TopicSets ==
    UNION {{T \in SUBSET (Range(topics(n)) \cup {ForeignHash}) : Cardinality(T) <= MaxTopics}
           : n \in Names}

Data == [path : Paths, index : Indices, arm : Arms]

\* event.topics.filter(t => list.indexOf(t) >= 0).length > 0
Matches(T, list) == \E t \in T : \E k \in 1..Len(list) : list[k] = t

\* Kind with the statement arm ahead of the branch arm
Kind_StatementBeforeBranch(T) ==
    IF Matches(T, lineTopics) THEN "line"
    ELSE IF Matches(T, functionTopics) THEN "function"
    ELSE IF Matches(T, statementTopics) THEN "statement"
    ELSE IF Matches(T, branchTopics) THEN "branch"
    ELSE IF Matches(T, assertPreTopics) THEN "assertPre"
    ELSE IF Matches(T, assertPostTopics) THEN "assertPost"
    ELSE "none"

\* Kind with a plain `else` as its last arm
Kind_LastArmElse(T) ==
    IF Matches(T, lineTopics) THEN "line"
    ELSE IF Matches(T, functionTopics) THEN "function"
    ELSE IF Matches(T, branchTopics) THEN "branch"
    ELSE IF Matches(T, statementTopics) THEN "statement"
    ELSE IF Matches(T, assertPreTopics) THEN "assertPre"
    ELSE "assertPost"

\* The arm of the if / else-if chain an event with topics T takes
Kind(T) ==
    IF Matches(T, lineTopics) THEN "line"
    ELSE IF Matches(T, functionTopics) THEN "function"
    ELSE IF Matches(T, branchTopics) THEN "branch"
    ELSE IF Matches(T, statementTopics) THEN "statement"
    ELSE IF Matches(T, assertPreTopics) THEN "assertPre"
    ELSE IF Matches(T, assertPostTopics) THEN "assertPost"
    ELSE "none"

\* What one arm of the chain leaves: the heap, assertCoverage, and whether it
\* threw.  Reading a property of `undefined` throws before anything is stored.
Outcome(h, ac, thrown) == [heap |-> h, assertCoverage |-> ac, thrown |-> thrown]

\* this.coverage[path] is an entry
Known(path) == path \in DOMAIN coverage

\* this.coverage[data[0]].l[data[1].toNumber()] += 1
LineArm(h, ac, d) ==
    IF ~Known(d.path) THEN Outcome(h, ac, TRUE)
    ELSE Outcome([h EXCEPT ![coverage[d.path]].l = Put(@, d.index, PlusOne(Get(@, d.index)))],
                 ac, FALSE)

\* FunctionArm stepping the l counter
FunctionArm_StepsLine(h, ac, d) ==
    IF ~Known(d.path) THEN Outcome(h, ac, TRUE)
    ELSE Outcome([h EXCEPT ![coverage[d.path]].l = Put(@, d.index, PlusOne(Get(@, d.index)))],
                 ac, FALSE)

\* this.coverage[data[0]].f[data[1].toNumber()] += 1
FunctionArm(h, ac, d) ==
    IF ~Known(d.path) THEN Outcome(h, ac, TRUE)
    ELSE Outcome([h EXCEPT ![coverage[d.path]].f = Put(@, d.index, PlusOne(Get(@, d.index)))],
                 ac, FALSE)

\* BranchArm stepping arm 0 whatever the arm of the event
BranchArm_ArmZero(h, ac, d) ==
    IF ~Known(d.path) \/ d.index \notin DOMAIN h[coverage[d.path]].b
    THEN Outcome(h, ac, TRUE)
    ELSE Outcome([h EXCEPT ![coverage[d.path]].b[d.index] = ArrPut(@, 0, PlusOne(ArrGet(@, 0)))],
                 ac, FALSE)

\* this.coverage[data[0]].b[data[1].toNumber()][data[2].toNumber()] += 1
BranchArm(h, ac, d) ==
    IF ~Known(d.path) \/ d.index \notin DOMAIN h[coverage[d.path]].b
    THEN Outcome(h, ac, TRUE)
    ELSE Outcome([h EXCEPT ![coverage[d.path]].b[d.index] =
                                ArrPut(@, d.arm, PlusOne(ArrGet(@, d.arm)))],
                 ac, FALSE)

\* StatementArm stepping the s counter of every entry that has one at the index
StatementArm_EveryEntry(h, ac, d) ==
    IF ~Known(d.path) THEN Outcome(h, ac, TRUE)
    ELSE Outcome([e \in DOMAIN h |->
                    IF e = coverage[d.path] \/ d.index \in DOMAIN h[e].s
                    THEN [h[e] EXCEPT !.s = Put(@, d.index, PlusOne(Get(@, d.index)))]
                    ELSE h[e]],
                 ac, FALSE)

\* this.coverage[data[0]].s[data[1].toNumber()] += 1
StatementArm(h, ac, d) ==
    IF ~Known(d.path) THEN Outcome(h, ac, TRUE)
    ELSE Outcome([h EXCEPT ![coverage[d.path]].s = Put(@, d.index, PlusOne(Get(@, d.index)))],
                 ac, FALSE)

\* AssertPreArm passing over an event whose path or branch it does not know
AssertPreArm_SkipsUnknown(h, ac, d) ==
    IF d.path \notin DOMAIN ac \/ d.index \notin DOMAIN ac[d.path]
    THEN Outcome(h, ac, FALSE)
    ELSE Outcome(h, [ac EXCEPT ![d.path][d.index].preEvents = @ + 1], FALSE)

\* this.assertCoverage[data[0]][data[1].toNumber()].preEvents += 1
AssertPreArm(h, ac, d) ==
    IF d.path \notin DOMAIN ac \/ d.index \notin DOMAIN ac[d.path]
    THEN Outcome(h, ac, TRUE)
    ELSE Outcome(h, [ac EXCEPT ![d.path][d.index].preEvents = @ + 1], FALSE)

\* AssertPostArm counting a post event only when a pre event is still unmatched
AssertPostArm_Paired(h, ac, d) ==
    IF d.path \notin DOMAIN ac \/ d.index \notin DOMAIN ac[d.path]
    THEN Outcome(h, ac, TRUE)
    ELSE IF ac[d.path][d.index].postEvents < ac[d.path][d.index].preEvents
         THEN Outcome(h, [ac EXCEPT ![d.path][d.index].postEvents = @ + 1], FALSE)
         ELSE Outcome(h, ac, FALSE)

\* this.assertCoverage[data[0]][data[1].toNumber()].postEvents += 1
AssertPostArm(h, ac, d) ==
    IF d.path \notin DOMAIN ac \/ d.index \notin DOMAIN ac[d.path]
    THEN Outcome(h, ac, TRUE)
    ELSE Outcome(h, [ac EXCEPT ![d.path][d.index].postEvents = @ + 1], FALSE)

\* The body of the loop for an event that takes arm k and whose data is d
ApplyEvent(h, ac, k, d) ==
    CASE k = "line" -> LineArm(h, ac, d)
      [] k = "function" -> FunctionArm(h, ac, d)
      [] k = "branch" -> BranchArm(h, ac, d)
      [] k = "statement" -> StatementArm(h, ac, d)
      [] k = "assertPre" -> AssertPreArm(h, ac, d)
      [] k = "assertPost" -> AssertPostArm(h, ac, d)
      [] OTHER -> Outcome(h, ac, FALSE)

\* Reinterpret with the test preEvents >= 0
Reinterpret_TestGeq(h, ac) ==
    [addr \in DOMAIN h |->
        IF \E p \in DOMAIN ac : coverage[p] = addr
        THEN LET p == CHOOSE q \in DOMAIN ac : coverage[q] = addr
             IN  [h[addr] EXCEPT !.b =
                    [i \in DOMAIN @ |->
                        IF i \in 1..Cardinality(DOMAIN @) /\ ac[p][i].preEvents >= 0
                        THEN <<ac[p][i].postEvents, ac[p][i].preEvents - ac[p][i].postEvents>>
                        ELSE @[i]]]
        ELSE h[addr]]

\* Reinterpret without the test preEvents > 0
Reinterpret_NoTest(h, ac) ==
    [addr \in DOMAIN h |->
        IF \E p \in DOMAIN ac : coverage[p] = addr
        THEN LET p == CHOOSE q \in DOMAIN ac : coverage[q] = addr
             IN  [h[addr] EXCEPT !.b =
                    [i \in DOMAIN @ |->
                        IF i \in 1..Cardinality(DOMAIN @)
                        THEN <<ac[p][i].postEvents, ac[p][i].preEvents - ac[p][i].postEvents>>
                        ELSE @[i]]]
        ELSE h[addr]]

\* "Finally, interpret the assert pre/post events": the forEach over the paths of
\* assertCoverage, each with its loop i = 1 .. Object.keys(contract.b).length
Reinterpret(h, ac) ==
    [addr \in DOMAIN h |->
        IF \E p \in DOMAIN ac : coverage[p] = addr
        THEN LET p == CHOOSE q \in DOMAIN ac : coverage[q] = addr
             IN  [h[addr] EXCEPT !.b =
                    [i \in DOMAIN @ |->
                        IF i \in 1..Cardinality(DOMAIN @) /\ ac[p][i].preEvents > 0
                        THEN <<ac[p][i].postEvents, ac[p][i].preEvents - ac[p][i].postEvents>>
                        ELSE @[i]]]
        ELSE h[addr]]

\* Object.assign({}, this.coverage): a new top-level object holding the same entries
ShallowCopy(cov) == [p \in DOMAIN cov |-> cov[p]]

\* The loop over events, from its first event to its last or to the one that throws
RECURSIVE RunEvents(_, _, _)
RunEvents(h, ac, evs) ==
    IF evs = <<>> THEN Outcome(h, ac, FALSE)
    ELSE LET out == ApplyEvent(h, ac, Kind(Head(evs).topics), Head(evs).data)
         IN  IF out.thrown THEN out
             ELSE RunEvents(out.heap, out.assertCoverage, Tail(evs))

\* RunGenerate discarding the assert counts once the pass has used them
RunGenerate_DiscardsAssert(h, ac, evs) ==
    LET out == RunEvents(h, ac, evs)
    IN  IF out.thrown THEN out
        ELSE Outcome(Reinterpret(out.heap, out.assertCoverage),
                     [p \in DOMAIN ac |->
                        [i \in DOMAIN ac[p] |-> [preEvents |-> 0, postEvents |-> 0]]],
                     FALSE)

\* generate(events) from its first line to its last
RunGenerate(h, ac, evs) ==
    LET out == RunEvents(h, ac, evs)
    IN  IF out.thrown THEN out
        ELSE Outcome(Reinterpret(out.heap, out.assertCoverage), out.assertCoverage, FALSE)

\* generate(events) as one step of the caller
Generate(evs) ==
    /\ pc = "idle"
    /\ LET out == RunGenerate(heap, assertCoverage, evs)
       IN  /\ heap' = out.heap
           /\ assertCoverage' = out.assertCoverage
           /\ error' = IF out.thrown THEN "TypeError" ELSE "none"
           /\ result' = IF out.thrown THEN result
                        ELSE [returned |-> TRUE, map |-> ShallowCopy(coverage)]
    /\ nEvents' = nEvents + Len(evs)
    /\ UNCHANGED <<coverage, topicVars, info, pc, kind>>

\* generate is entered: idx = 0
GenerateBegin ==
    /\ pc = "idle"
    /\ pc' = "loop"
    /\ kind' = "none"
    /\ error' = "none"
    /\ UNCHANGED <<heap, coverage, assertCoverage, topicVars, info, nEvents, result>>

\* The conditions of the if / else-if chain on the next event, whose topics are T
GenerateClassify(T) ==
    /\ pc = "loop"
    /\ kind' = Kind(T)
    /\ pc' = "arm"
    /\ nEvents' = nEvents + 1
    /\ UNCHANGED <<heap, coverage, assertCoverage, topicVars, info, error, result>>

\* The arm taken (none for kind "none"): the event's data decodes to d, and the
\* counter is stepped.  After a throw, kind still names the arm that threw.
GenerateApply(d) ==
    /\ pc = "arm"
    /\ LET out == ApplyEvent(heap, assertCoverage, kind, d)
       IN  /\ heap' = out.heap
           /\ assertCoverage' = out.assertCoverage
           /\ pc' = IF out.thrown THEN "idle" ELSE "loop"
           /\ error' = IF out.thrown THEN "TypeError" ELSE "none"
           /\ kind' = IF out.thrown THEN kind ELSE "none"
    /\ UNCHANGED <<coverage, topicVars, info, nEvents, result>>

\* idx = events.length: the assert pass, and the return
GenerateReturn ==
    /\ pc = "loop"
    /\ heap' = Reinterpret(heap, assertCoverage)
    /\ result' = [returned |-> TRUE, map |-> ShallowCopy(coverage)]
    /\ pc' = "idle"
    /\ UNCHANGED <<coverage, assertCoverage, topicVars, info, kind, nEvents, error>>

----------------------------------------------------------------------------
(* One CoverageMap object used by its caller: contracts are added, and      *)
(* generate is called any number of times on any events.                    *)

Add ==
    /\ Len(heap) < MaxAdds
    /\ \E path \in Paths : AddContract(InfoOf(path), path)

Classify ==
    /\ pc = "loop"
    /\ nEvents < MaxEvents
    /\ \E T \in TopicSets : GenerateClassify(T)

Apply ==
    /\ pc = "arm"
    /\ \E d \in Data : GenerateApply(d)

Next == Add \/ GenerateBegin \/ Classify \/ Apply \/ GenerateReturn

Spec == Init /\ [][Next]_vars

----------------------------------------------------------------------------
(* The same object fed only the events of one branch of a.sol, branch 3:    *)
(* its two arms, and the assert-pre and assert-post events.  Fewer kinds of *)
(* event, so that more of them fit.                                         *)

AssertTopicSets == {{branchHash("M")}, {assertPreHash("M")}, {assertPostHash("M")}}

AssertData == [path : {"a.sol"}, index : {3}, arm : {0, 1}]

AddAssert ==
    /\ Len(heap) < MaxAdds
    /\ AddContract(InfoOf("a.sol"), "a.sol")

ClassifyAssert ==
    /\ pc = "loop"
    /\ nEvents < MaxAssertEvents
    /\ \E T \in AssertTopicSets : GenerateClassify(T)

ApplyAssert ==
    /\ pc = "arm"
    /\ \E d \in AssertData : GenerateApply(d)

NextAssert == AddAssert \/ GenerateBegin \/ ClassifyAssert \/ ApplyAssert \/ GenerateReturn

SpecAssert == Init /\ [][NextAssert]_vars

----------------------------------------------------------------------------
(* Registration alone: the first contract added is any info within the      *)
(* bounds, the ones after it are the contracts of the two paths.            *)

AddFirst ==
    /\ heap = <<>>
    /\ \E path \in Paths : \E i \in WideInfos(path) : AddContract(i, path)

AddNext ==
    /\ heap # <<>>
    /\ Len(heap) < MaxAdds
    /\ \E path \in Paths : AddContract(InfoOf(path), path)

NextInit == AddFirst \/ AddNext

SpecInit == Init /\ [][NextInit]_vars

----------------------------------------------------------------------------
(* generate called on whole streams of events: those of contract M on line, *)
(* function, branch and statement 1 of a.sol.                               *)

StreamEvents ==
    {ev \in [topics : {{t} : t \in Range(topics("M"))},
             data : [path : {"a.sol"}, index : {1}, arm : {0, 1}]]
        : ev.data.arm = 1 => ev.topics = {branchHash("M")}}

Streams(n) == UNION {[1..m -> StreamEvents] : m \in 0..n}

GenerateStream ==
    /\ pc = "idle"
    /\ \E evs \in Streams(MaxStream - nEvents) : Generate(evs)

NextStream == Add \/ GenerateStream

SpecStream == Init /\ [][NextStream]_vars

----------------------------------------------------------------------------
(* The same object fed only events that carry two or more topics of one     *)
(* contract: once the contract is registered, such an event matches the     *)
(* lists of several kinds.                                                  *)

AmbiguousTopicSets ==
    UNION {{T \in SUBSET Range(topics(n)) : Cardinality(T) >= 2 /\ Cardinality(T) <= MaxTopics}
           : n \in Names}

ClassifyAmbiguous ==
    /\ pc = "loop"
    /\ nEvents < MaxEvents
    /\ \E T \in AmbiguousTopicSets : GenerateClassify(T)

NextAmbiguous == Add \/ GenerateBegin \/ ClassifyAmbiguous \/ Apply \/ GenerateReturn

SpecAmbiguous == Init /\ [][NextAmbiguous]_vars

----------------------------------------------------------------------------
(* Properties of one event *)

\* The counter object an arm steps
Field(k) == CASE k = "line" -> "l" [] k = "function" -> "f" [] k = "statement" -> "s"

\* o[x] is a counter: the key is there and holds a number
HasCounter(o, x) == x \in DOMAIN o /\ IsNumber(o[x])

\* Heaps h and g differ at most in counter x of object c ("l", "f", "s") of the
\* entry at addr: every other key of every l, f, s, and every b, is the same
SameButCounter(h, g, addr, c, x) ==
    /\ DOMAIN g = DOMAIN h
    /\ \A e \in DOMAIN h :
        /\ g[e].b = h[e].b
        /\ \A o \in {"l", "f", "s"} :
            /\ DOMAIN g[e][o] = DOMAIN h[e][o]
            /\ \A y \in DOMAIN h[e][o] :
                  <<e, o, y>> # <<addr, c, x>> => g[e][o][y] = h[e][o][y]

\* Heaps h and g differ at most in arm a of branch x of the entry at addr
SameButArm(h, g, addr, x, a) ==
    /\ DOMAIN g = DOMAIN h
    /\ \A e \in DOMAIN h :
        /\ g[e].l = h[e].l /\ g[e].f = h[e].f /\ g[e].s = h[e].s
        /\ DOMAIN g[e].b = DOMAIN h[e].b
        /\ \A y \in DOMAIN h[e].b :
            /\ Len(g[e].b[y]) = Len(h[e].b[y])
            /\ \A j \in 1..Len(h[e].b[y]) :
                  <<e, y, j>> # <<addr, x, a + 1>> => g[e].b[y][j] = h[e].b[y][j]

\* C3: an event that takes the line (function, statement) arm, with data
\* (path A, index x) where A is registered and x has a counter in A's l (f, s),
\* adds exactly 1 to that counter, and changes no other counter of any entry
\* and nothing of assertCoverage.
C3_CounterEventStepsOneCounter ==
    (pc = "arm" /\ kind \in {"line", "function", "statement"}) =>
        \A d \in Data :
            (Known(d.path) /\ HasCounter(heap[coverage[d.path]][Field(kind)], d.index)) =>
                LET out == ApplyEvent(heap, assertCoverage, kind, d)
                    A   == coverage[d.path]
                IN  /\ ~out.thrown
                    /\ out.heap[A][Field(kind)][d.index]
                         = heap[A][Field(kind)][d.index] + 1
                    /\ SameButCounter(heap, out.heap, A, Field(kind), d.index)
                    /\ out.assertCoverage = assertCoverage

\* A line event on a.sol and a statement event on b.sol have been counted
C3_Witness ==
    /\ DOMAIN coverage = Paths
    /\ pc = "loop"
    /\ heap[coverage["a.sol"]].l[1] = 1
    /\ heap[coverage["b.sol"]].s[1] = 1

\* C4: an event that takes the branch arm, with data (path A, branch i, arm a)
\* where A is registered, i is a branch of A and a is 0 or 1, adds exactly 1 to
\* b[i][a] and changes neither the other arm, nor another branch, nor any
\* l / f / s counter, nor another entry, nor assertCoverage.
C4_BranchEventStepsOneArm ==
    (pc = "arm" /\ kind = "branch") =>
        \A d \in Data :
            (Known(d.path) /\ d.index \in DOMAIN heap[coverage[d.path]].b /\ d.arm \in {0, 1}) =>
                LET out == ApplyEvent(heap, assertCoverage, kind, d)
                    A   == coverage[d.path]
                IN  /\ ~out.thrown
                    /\ out.heap[A].b[d.index][d.arm + 1] = heap[A].b[d.index][d.arm + 1] + 1
                    /\ SameButArm(heap, out.heap, A, d.index, d.arm)
                    /\ out.assertCoverage = assertCoverage

\* Branch 1 of a.sol has taken arm 1 once
C4_Witness ==
    /\ Known("a.sol")
    /\ pc = "loop"
    /\ heap[coverage["a.sol"]].b[1] = <<0, 1>>

\* C5: an event that takes any of the six arms and whose path is not
\* registered throws: generate ends without returning, and neither an entry of
\* the heap nor assertCoverage (its paths included) is changed by that event.
C5_UnregisteredPathThrows ==
    /\ (pc = "arm" /\ kind # "none") =>
            \A d \in Data :
                ~Known(d.path) =>
                    LET out == ApplyEvent(heap, assertCoverage, kind, d)
                    IN  /\ out.thrown
                        /\ out.heap = heap
                        /\ out.assertCoverage = assertCoverage
    /\ error = "TypeError" => pc = "idle"
    /\ DOMAIN assertCoverage = DOMAIN coverage

\* A line event on a path not registered, while another path is, has thrown
C5_Witness ==
    /\ error = "TypeError"
    /\ kind = "line"
    /\ heap # <<>>
    /\ DOMAIN coverage # Paths

\* C12 (as claimed): in every state, during and after generate, every b[i] of
\* every entry is an array of two elements, whatever arm the events carry.
C12_BranchAlwaysPair ==
    \A addr \in DOMAIN heap : \A i \in DOMAIN heap[addr].b : Len(heap[addr].b[i]) = 2

\* C18 (as claimed): generate adds no counter key: in every state the l, f, s
\* and b of every registered path, and its assertCoverage, have the keys
\* addContract created, whatever index the events carried.
C18_GenerateAddsNoKey ==
    \A p \in DOMAIN coverage :
        LET e == heap[coverage[p]]
            z == NewEntry(InfoOf(p), p)
        IN  /\ DOMAIN e.l = DOMAIN z.l
            /\ DOMAIN e.f = DOMAIN z.f
            /\ DOMAIN e.s = DOMAIN z.s
            /\ DOMAIN e.b = DOMAIN z.b
            /\ DOMAIN assertCoverage[p] = DOMAIN NewAssertEntry(InfoOf(p))

\* The hashes in the six lists
Registered ==
    Range(lineTopics) \cup Range(functionTopics) \cup Range(branchTopics)
        \cup Range(statementTopics) \cup Range(assertPreTopics) \cup Range(assertPostTopics)

\* C6: an event none of whose topics is in any of the six lists takes no arm,
\* and the loop body then changes no counter and does not throw.
C6_UnknownEventDropped ==
    /\ pc = "loop" =>
            LET known == Registered
            IN  \A T \in TopicSets : T \cap known = {} => Kind(T) = "none"
    /\ (pc = "arm" /\ kind = "none") =>
            \A d \in Data :
                ApplyEvent(heap, assertCoverage, kind, d) = Outcome(heap, assertCoverage, FALSE)

\* An event is being passed over though some contract is registered
C6_Witness ==
    /\ pc = "arm"
    /\ kind = "none"
    /\ lineTopics # <<>>

\* C7: (1) addContract for a path leaves the entry and the assert counts of
\* every other registered path as they were; (2) an event with path A changes
\* no counter and no assert count of another registered path B; (3) the assert
\* pass at the end of generate gives a branch of B a new pair only from B's own
\* pre / post counts.
C7_add ==
    Len(heap') = Len(heap) + 1 =>
        \A B \in DOMAIN coverage :
            B # heap'[Len(heap')].path =>
                /\ B \in DOMAIN coverage' /\ coverage'[B] = coverage[B]
                /\ heap'[coverage[B]] = heap[coverage[B]]
                /\ B \in DOMAIN assertCoverage' /\ assertCoverage'[B] = assertCoverage[B]

C7_event ==
    pc = "arm" =>
        \A d \in Data : \A B \in DOMAIN coverage :
            B # d.path =>
                LET out == ApplyEvent(heap, assertCoverage, kind, d)
                IN  /\ out.heap[coverage[B]] = heap[coverage[B]]
                    /\ out.assertCoverage[B] = assertCoverage[B]

C7_pass ==
    (pc = "loop" /\ pc' = "idle") =>
        \A B \in DOMAIN coverage : \A i \in DOMAIN heap[coverage[B]].b :
            heap'[coverage[B]].b[i] # heap[coverage[B]].b[i] =>
                /\ assertCoverage[B][i].preEvents > 0
                /\ heap'[coverage[B]].b[i] =
                     <<assertCoverage[B][i].postEvents,
                       assertCoverage[B][i].preEvents - assertCoverage[B][i].postEvents>>

C7_NoCrossContamination == [][C7_add /\ C7_event /\ C7_pass]_vars

\* Both paths are registered, a.sol has had an assert-pre event on branch 1 that
\* generate has turned into the pair [0, 1], and b.sol is as addContract left it
C7_Witness ==
    /\ DOMAIN coverage = Paths
    /\ result.returned
    /\ assertCoverage["a.sol"][1].preEvents = 1
    /\ heap[coverage["a.sol"]].b[1] = <<0, 1>>
    /\ heap[coverage["b.sol"]] = NewEntry(InfoOf("b.sol"), "b.sol")
    /\ assertCoverage["b.sol"] = NewAssertEntry(InfoOf("b.sol"))

\* C8 (as claimed): addContract on a path that is already registered fails, and
\* leaves the counters of that path and the six topic lists as they were.
C8_ReAddFails ==
    [][(Len(heap') = Len(heap) + 1 /\ heap'[Len(heap')].path \in DOMAIN coverage) =>
            /\ error' # "none"
            /\ heap'[coverage'[heap'[Len(heap')].path]]
                 = heap[coverage[heap'[Len(heap')].path]]
            /\ assertCoverage' = assertCoverage
            /\ topicVars' = topicVars]_vars

\* The counters seen through an entry
Counters(e) == [l |-> e.l, f |-> e.f, s |-> e.s, b |-> e.b]

\* C10 (as claimed): once generate has returned a map, no later call changes an
\* l, f, s or b value seen through that map.
C10_ReturnedMapImmutable ==
    [][result.returned =>
            \A p \in DOMAIN result.map :
                Counters(heap'[result.map[p]]) = Counters(heap[result.map[p]])]_vars

----------------------------------------------------------------------------
(* Properties of generate as a whole *)

\* C1: when generate returns, every branch i of every registered path with
\* preEvents > 0 holds the pair [postEvents, preEvents - postEvents], whatever
\* its arms had counted, and every branch with preEvents = 0 holds the pair the
\* loop left in it.
C1_AssertBranchesReinterpreted ==
    [][(pc = "loop" /\ pc' = "idle") =>
            /\ result'.returned
            /\ \A p \in DOMAIN coverage : \A i \in DOMAIN heap[coverage[p]].b :
                    LET pre  == assertCoverage[p][i].preEvents
                        post == assertCoverage[p][i].postEvents
                    IN  /\ p \in DOMAIN result'.map
                        /\ pre > 0 => heap'[result'.map[p]].b[i] = <<post, pre - post>>
                        /\ pre = 0 => heap'[result'.map[p]].b[i] = heap[coverage[p]].b[i]]_vars

\* Branch 3 of a.sol has had 5 assert-pre and 3 assert-post events, and
\* generate has returned the pair [3, 2] for it
C1_Witness ==
    /\ Known("a.sol")
    /\ result.returned
    /\ pc = "idle"
    /\ assertCoverage["a.sol"][3] = [preEvents |-> 5, postEvents |-> 3]
    /\ heap[result.map["a.sol"]].b[3] = <<3, 2>>

\* No branch of any registered path has had an assert-pre event
NoAssertBranch ==
    \A p \in DOMAIN assertCoverage : \A i \in DOMAIN assertCoverage[p] :
        assertCoverage[p][i].preEvents = 0

\* C13: (1) when no branch of any registered path has preEvents > 0 at the end
\* of the stream, the assert pass changes no counter: generate returns the map
\* as the event loop left it; (2) when the object has been given no event at
\* all, generate returns, for every registered path, the zero-filled entry
\* addContract made.
C13_EmptyStreamNoOp ==
    [][(pc = "loop" /\ pc' = "idle") =>
            /\ NoAssertBranch =>
                    /\ heap' = heap
                    /\ result' = [returned |-> TRUE, map |-> ShallowCopy(coverage)]
            /\ nEvents = 0 =>
                    \A p \in DOMAIN coverage :
                        /\ p \in DOMAIN result'.map
                        /\ heap'[result'.map[p]] = NewEntry(InfoOf(p), p)]_vars

\* generate has returned after a branch event on branch 1 of a.sol, and
\* no branch has had an assert-pre event: the pair is as the event left it
C13_Witness ==
    /\ Known("a.sol")
    /\ pc = "idle"
    /\ result.returned
    /\ "a.sol" \in DOMAIN result.map
    /\ NoAssertBranch
    /\ heap[result.map["a.sol"]].b[1] = <<0, 1>>

\* The six kinds, in the order of the chain, and the list each is tested against
Order == <<"line", "function", "branch", "statement", "assertPre", "assertPost">>

TopicList(k) ==
    CASE k = "line" -> lineTopics
      [] k = "function" -> functionTopics
      [] k = "branch" -> branchTopics
      [] k = "statement" -> statementTopics
      [] k = "assertPre" -> assertPreTopics
      [] k = "assertPost" -> assertPostTopics

\* The positions in Order of the kinds whose list holds a topic of T
MatchingKinds(T) == {n \in 1..Len(Order) : Matches(T, TopicList(Order[n]))}

\* Every counter of the object, as <<kind, entry, key, arm, value>>
Cells(h, ac) ==
    UNION {{<<"line", e, x, 0, h[e].l[x]>> : x \in DOMAIN h[e].l}
             \cup {<<"function", e, x, 0, h[e].f[x]>> : x \in DOMAIN h[e].f}
             \cup {<<"statement", e, x, 0, h[e].s[x]>> : x \in DOMAIN h[e].s}
             \cup UNION {{<<"branch", e, x, j - 1, h[e].b[x][j]>> : j \in 1..Len(h[e].b[x])}
                          : x \in DOMAIN h[e].b}
           : e \in DOMAIN h}
    \cup UNION {{<<"assertPre", coverage[p], x, 0, ac[p][x].preEvents>> : x \in DOMAIN ac[p]}
                  \cup {<<"assertPost", coverage[p], x, 0, ac[p][x].postEvents>> : x \in DOMAIN ac[p]}
                : p \in DOMAIN ac}

\* The value the arm of kind k reads, for data d on a registered path and, for
\* a branch or an assert kind, an existing branch
Stepped(k, d) ==
    CASE k \in {"line", "function", "statement"} ->
            Get(heap[coverage[d.path]][Field(k)], d.index)
      [] k = "branch" -> ArrGet(heap[coverage[d.path]].b[d.index], d.arm)
      [] k = "assertPre" -> assertCoverage[d.path][d.index].preEvents
      [] k = "assertPost" -> assertCoverage[d.path][d.index].postEvents

\* C15: (1) an event whose topics match the lists of two or more kinds takes
\* the arm of the first of them in the order line, function, branch, statement,
\* assert-pre, assert-post; (2) the arm taken, unless it throws, gives a new
\* value to exactly one counter, a counter of that kind, and to none of another
\* (a counter that already holds NaN is stored NaN again).
C15_FirstMatchingKind ==
    /\ pc = "loop" =>
            \A T \in AmbiguousTopicSets :
                LET M == MatchingKinds(T)
                IN  Cardinality(M) >= 2 =>
                        \E n \in M : /\ \A m \in M : n <= m
                                     /\ Kind(T) = Order[n]
    /\ (pc = "arm" /\ kind # "none") =>
            \A d \in Data :
                LET out == ApplyEvent(heap, assertCoverage, kind, d)
                    new == Cells(out.heap, out.assertCoverage) \ Cells(heap, assertCoverage)
                IN  ~out.thrown =>
                        /\ \A c \in new : new = {c} /\ c[1] = kind
                        /\ new = {} => Stepped(kind, d) = NaN

\* Two events with several topics of contract M have been counted, one as a
\* function event and one as a branch event, and as nothing else
C15_Witness ==
    /\ Known("a.sol")
    /\ pc = "loop"
    /\ nEvents = 2
    /\ heap[coverage["a.sol"]].f[1] = 1
    /\ heap[coverage["a.sol"]].b[1] = <<0, 1>>
    /\ \A x \in DOMAIN heap[coverage["a.sol"]].l : heap[coverage["a.sol"]].l[x] = 0
    /\ DOMAIN heap[coverage["a.sol"]].s = {}
    /\ NoAssertBranch

\* C14 (as claimed): the assert pass runs once on one CoverageMap, after all
\* events: once generate has run the pass and returned, no further event is
\* accumulated into a counter or an assert count, and the pass is not run again.
C14_PassExactlyOnce ==
    [][result.returned =>
            /\ ~(pc = "loop" /\ pc' = "idle")
            /\ pc = "arm" => (heap' = heap /\ assertCoverage' = assertCoverage)]_vars

\* v is a non-negative integer
IsCount(v) == IsNumber(v) /\ v >= 0

\* C17 (as claimed): every counter in the map generate returns is a
\* non-negative integer, for events on registered paths and existing indices,
\* also when a branch has had more assert-post than assert-pre events.
C17_CountersNonNegative ==
    [][(pc = "loop" /\ pc' = "idle") =>
            \A p \in DOMAIN result'.map :
                LET e == heap'[result'.map[p]]
                IN  /\ \A x \in DOMAIN e.l : IsCount(e.l[x])
                    /\ \A x \in DOMAIN e.f : IsCount(e.f[x])
                    /\ \A x \in DOMAIN e.s : IsCount(e.s[x])
                    /\ \A x \in DOMAIN e.b : \A j \in 1..Len(e.b[x]) : IsCount(e.b[x][j])]_vars

----------------------------------------------------------------------------
(* Properties of addContract *)

\* C2: right after addContract(info, path), the entry of path has one l counter
\* per runnable line of info (k of them, for k distinct lines), one f counter per
\* key of fnMap, one b pair per key of branchMap and one s counter per key of
\* statementMap, all zero, and assertCoverage[path] has one zero
\* {preEvents, postEvents} per branch counter.
C2_AddContractZeroFills ==
    [][Len(heap') = Len(heap) + 1 =>
            LET e == heap'[Len(heap')]
                a == assertCoverage'[e.path]
            IN  /\ coverage'[e.path] = Len(heap')
                /\ Cardinality(DOMAIN e.l) = Cardinality(Range(info'.runnableLines))
                /\ \A n \in 1..Len(info'.runnableLines) : info'.runnableLines[n] \in DOMAIN e.l
                /\ \A x \in DOMAIN e.l : e.l[x] = 0
                /\ Cardinality(DOMAIN e.f) = Cardinality(info'.fnMap)
                /\ \A x \in DOMAIN e.f : e.f[x] = 0
                /\ Cardinality(DOMAIN e.b) = Cardinality(info'.branchMap)
                /\ \A x \in DOMAIN e.b : e.b[x] = <<0, 0>>
                /\ Cardinality(DOMAIN e.s) = Cardinality(info'.statementMap)
                /\ \A x \in DOMAIN e.s : e.s[x] = 0
                /\ DOMAIN a = DOMAIN e.b
                /\ \A x \in DOMAIN a : a[x] = [preEvents |-> 0, postEvents |-> 0]]_vars

\* A contract with 2 runnable lines, 1 function, 2 branches and no statement is
\* registered, with that many counters
C2_Witness ==
    /\ Len(heap) = 1
    /\ info.runnableLines = <<2, 1>>
    /\ Cardinality(info.fnMap) = 1
    /\ Cardinality(info.branchMap) = 2
    /\ info.statementMap = {}
    /\ Cardinality(DOMAIN heap[1].l) = 2
    /\ Cardinality(DOMAIN heap[1].f) = 1
    /\ Cardinality(DOMAIN heap[1].b) = 2
    /\ DOMAIN heap[1].s = {}

\* The keys K of a map are the contiguous integers 1..N
DenseKeys(K) == K = 1..Cardinality(K)

\* C11 (as claimed): addContract fails when the keys of info.fnMap, info.branchMap
\* or info.statementMap are not 1..N, and no entry has a counter for a key that
\* is not in its map, or lacks a counter for a key that is.
C11_NonDenseKeysFatal ==
    /\ (heap # <<>> /\ ~(DenseKeys(info.fnMap) /\ DenseKeys(info.branchMap)
                          /\ DenseKeys(info.statementMap))) => error # "none"
    /\ \A addr \in DOMAIN heap :
        /\ DOMAIN heap[addr].f = heap[addr].fnMap
        /\ DOMAIN heap[addr].b = heap[addr].branchMap
        /\ DOMAIN heap[addr].s = heap[addr].statementMap

\* The hash of the kind at position j of Order, for the contract called name
KindHash(j, name) ==
    CASE j = 1 -> lineHash(name)
      [] j = 2 -> fnHash(name)
      [] j = 3 -> branchHash(name)
      [] j = 4 -> statementHash(name)
      [] j = 5 -> assertPreHash(name)
      [] j = 6 -> assertPostHash(name)

\* Sequence t begins with sequence s
IsPrefix(s, t) == Len(s) <= Len(t) /\ \A i \in 1..Len(s) : t[i] = s[i]

\* C16: after every step, with n the number of addContract calls so far, each
\* of the six topic lists holds n hashes, the i-th being the hash of its kind
\* for the i-th contract registered, and the topics file holds 6n lines, lines
\* 6(i-1)+1 .. 6i being the six hashes of the i-th contract in the order line,
\* function, branch, statement, assert-pre, assert-post; and no step of
\* addContract or generate removes or rewrites what a list or the file held.
C16_TopicsOnlyGrow ==
    [][/\ \A j \in 1..6 :
            /\ Len(TopicList(Order[j])') = Len(heap')
            /\ IsPrefix(TopicList(Order[j]), TopicList(Order[j])')
       /\ Len(sourceTopicsFile') = 6 * Len(heap')
       /\ IsPrefix(sourceTopicsFile, sourceTopicsFile')
       /\ \A i \in 1..Len(heap') : \A j \in 1..6 :
            LET h == KindHash(j, InfoOf(heap'[i].path).contractName)
            IN  /\ TopicList(Order[j])'[i] = h
                /\ sourceTopicsFile'[6 * (i - 1) + j] = h]_vars

\* Contracts M and N are registered, in this order, and generate has returned
\* for a stream with an event: each list holds two hashes and the file 12 lines
C16_Witness ==
    /\ Len(heap) = 2
    /\ heap[1].path = "a.sol" /\ heap[2].path = "b.sol"
    /\ result.returned
    /\ nEvents > 0
    /\ branchTopics = <<branchHash("M"), branchHash("N")>>
    /\ Len(sourceTopicsFile) = 12
    /\ sourceTopicsFile[7] = lineHash("N")

\* The event's path is registered, its index has a counter of the kind of the
\* event, and its arm is 0 or 1
ValidEvent(ev) ==
    LET k == Kind(ev.topics)
        d == ev.data
    IN  /\ Known(d.path)
        /\ k \in {"line", "function", "statement"} =>
                HasCounter(heap[coverage[d.path]][Field(k)], d.index)
        /\ k = "branch" => d.index \in DOMAIN heap[coverage[d.path]].b /\ d.arm \in {0, 1}
        /\ k \in {"assertPre", "assertPost"} => d.index \in DOMAIN assertCoverage[d.path]

\* The permutations of 1..n
Perms(n) == {f \in [1..n -> 1..n] : \A i, j \in 1..n : f[i] = f[j] => i = j}

\* What the caller of generate gets: whether it threw, and the map it returned,
\* each path with the entry it leads to
Returned(out) == [thrown |-> out.thrown,
                  map |-> [p \in DOMAIN coverage |-> out.heap[coverage[p]]]]

\* C9: for a stream of valid events, generate returns the same map for every
\* permutation of the stream.
C9_OrderIrrelevant ==
    pc = "idle" =>
        \A evs \in Streams(MaxStream - nEvents) :
            (\A n \in 1..Len(evs) : ValidEvent(evs[n])) =>
                LET inOrder == Returned(RunGenerate(heap, assertCoverage, evs))
                IN  \A f \in Perms(Len(evs)) :
                        Returned(RunGenerate(heap, assertCoverage,
                                             [n \in 1..Len(evs) |-> evs[f[n]]])) = inOrder

\* generate has returned for a stream of three events on branch 1 of a.sol: two
\* assert-pre and one assert-post
C9_Witness ==
    /\ Known("a.sol")
    /\ result.returned
    /\ nEvents = 3
    /\ assertCoverage["a.sol"][1] = [preEvents |-> 2, postEvents |-> 1]
    /\ heap[result.map["a.sol"]].b[1] = <<1, 1>>

\* C19: for a stream of valid events cut in two at any place, generate on the
\* first part followed by generate on the second, on the same object, returns
\* the same map as one generate on the whole stream.
C19_BatchSplitEquivalent ==
    pc = "idle" =>
        \A evs \in Streams(MaxStream - nEvents) :
            (\A n \in 1..Len(evs) : ValidEvent(evs[n])) =>
                LET whole == Returned(RunGenerate(heap, assertCoverage, evs))
                IN  \A k \in 0..Len(evs) :
                        LET first == RunGenerate(heap, assertCoverage, SubSeq(evs, 1, k))
                        IN  /\ ~first.thrown
                            /\ Returned(RunGenerate(first.heap, first.assertCoverage,
                                                    SubSeq(evs, k + 1, Len(evs)))) = whole

\* Branch 1 of a.sol has had one assert-pre and one assert-post event, in one
\* call of generate or in two, and generate has returned the pair [1, 0] for it
C19_Witness ==
    /\ Known("a.sol")
    /\ result.returned
    /\ "a.sol" \in DOMAIN result.map
    /\ nEvents = 2
    /\ assertCoverage["a.sol"][1] = [preEvents |-> 1, postEvents |-> 1]
    /\ heap[result.map["a.sol"]].b[1] = <<1, 0>>

====
